---- MODULE Spec2Model ----
(***************************************************************************)
(* reviewio: a command line tool that ranks the reviewers and creators of  *)
(* a repository's pull requests (show), lists labels (labels) and counts   *)
(* review comments per user (comments).  Model of src/reviewio/cli.py.     *)
(*                                                                         *)
(* One run of one subcommand is one behaviour.  The remote repository is   *)
(* an input of the run; every round trip to the API is one step, and a     *)
(* round trip may fail with one of the two exceptions the commands name.   *)
(***************************************************************************)
EXTENDS Integers, Sequences, FiniteSets, TLC

VARIABLES
    cmd,             \* the subcommand that was invoked
    pc,              \* position inside the subcommand
    weight_method,   \* show: --weight-method
    younger_than,    \* show: --younger-than
    label_list,      \* show: --label (the set of the repeated option's values)
    remote,          \* the pull requests the API serves for get_pulls(state)
    repo_labels,     \* the label names the API serves for get_labels()
    cursor,          \* how many items of the paginated list were iterated
    pull_requests,   \* show: the local list `pull_requests`
    idx,             \* show: how many entries of pull_requests the loop processed
    review_counter,  \* show: Counter, user -> points
    creator_counter, \* show: Counter, user -> points
    last_points,     \* show: the dict extract_reviewers returned last
    user_names,      \* comments: the list `user_names`
    out,             \* what was written to standard output, line by line
    raised,          \* the exception that ended the run, "none" if none
    exit_status,     \* "running", "ok", "click_error", "unhandled"
    stderr,          \* the message click reports for a ClickException, "" if none
    tc_created,      \* time_condition called on its own: pull_request.created_at
    tc_condition,    \* time_condition called on its own: condition
    tc_result        \* time_condition called on its own: the returned value

vars == << cmd, pc, weight_method, younger_than, label_list, remote, repo_labels,
           cursor, pull_requests, idx, review_counter, creator_counter,
           last_points, user_names, out, raised, exit_status, stderr,
           tc_created, tc_condition, tc_result >>

----------------------------------------------------------------------------
(* Bounds of the model *)

\* the longest list of pull requests the API serves in a run
MaxPulls == 3

\* datetime.now(), in days since an arbitrary origin; the clock does not
\* advance by a day within one run
NowDay == 400

----------------------------------------------------------------------------
(* The data the API serves *)

Users == {"A", "B", "C"}
Teams == {"core"}

\* the values of PullRequestReview.state the API serves; a review that
\* requests changes has the state CHANGES_REQUESTED (REQUEST_CHANGES is the
\* name of the event that submits one, and is no state of a review)
ReviewStates == {"APPROVED", "CHANGES_REQUESTED", "COMMENTED", "DISMISSED"}

WeightMethods == {"simple", "changes"}
Windows == {"week", "month", "year", "all"}
Exceptions == {"ConnectionError", "UnknownObjectException"}

Review(u, s) == [user |-> u, state |-> s]

Pull(u, c, a, d, ls, rs, ru, rt, cs) ==
    [user |-> u, created_at |-> c, additions |-> a, deletions |-> d,
     labels |-> ls, reviews |-> rs, requested_users |-> ru,
     requested_teams |-> rt, comments |-> cs]

\* The pull requests a repository of the model is made of.  The first three
\* are the pull requests of the end-to-end scenario; the others put a user
\* in several reviewer sources at once, put team requests next to user
\* requests, and sit on the boundaries of the three time windows.
Pulls ==
    { Pull("A", NowDay - 30, 10, 5, {"bug", "urgent"},
           << Review("B", "APPROVED") >>, {}, {}, << "B", "A", "B" >>),
      Pull("B", NowDay - 31, 0, 0, {"bug"},
           << Review("A", "APPROVED"), Review("C", "CHANGES_REQUESTED") >>,
           {}, {}, << "C" >>),
      Pull("A", NowDay - 6, 0, 0, {}, << >>, {}, {}, << >>),
      Pull("C", NowDay - 7, 3, 0, {"urgent"},
           << Review("A", "COMMENTED"), Review("B", "APPROVED"),
              Review("B", "APPROVED") >>,
           {"B"}, {"core"}, << "A", "A" >>),
      Pull("B", NowDay - 365, 0, 7, {"bug"},
           << Review("C", "COMMENTED") >>, {"A"}, {}, << "C", "B" >>),
      Pull("C", NowDay - 364, 1, 1, {"bug", "urgent"},
           << Review("A", "DISMISSED"), Review("A", "APPROVED") >>,
           {"A", "C"}, {"core"}, << "B" >>) }

RECURSIVE SeqsUpTo(_, _)
SeqsUpTo(S, n) ==
    IF n = 0 THEN { << >> }
    ELSE LET shorter == SeqsUpTo(S, n - 1)
         IN  shorter \cup { Append(s, x) : s \in shorter, x \in S }

PullLists == SeqsUpTo(Pulls, MaxPulls)

LabelLists == { {}, {"bug"}, {"bug", "urgent"}, {"bug", "missing"} }
RepoLabelLists == { << >>, << "bug" >>, << "bug", "urgent" >> }

----------------------------------------------------------------------------
(* Helpers for sequences and Counters *)

Range(s) == { s[i] : i \in DOMAIN s }

RECURSIVE SumOver(_, _)
\* the sum of f[x] over the x of S
SumOver(f, S) ==
    IF S = {} THEN 0
    ELSE LET x == CHOOSE y \in S : TRUE
         IN  f[x] + SumOver(f, S \ {x})

\* collections.Counter: a function from its keys to their counts; a key that is
\* absent reads as 0
EmptyCounter == << >>

CounterGet(counter, key) == IF key \in DOMAIN counter THEN counter[key] ELSE 0

\* dict.update, the mistake Counter.update is there to avoid: overwrite
DictUpdate(counter, mapping) ==
    [ key \in DOMAIN counter \cup DOMAIN mapping |->
        IF key \in DOMAIN mapping THEN mapping[key] ELSE counter[key] ]

\* Counter.update(mapping): adds the counts of mapping, keeps every key
CounterUpdate(counter, mapping) ==
    [ key \in DOMAIN counter \cup DOMAIN mapping |->
        CounterGet(counter, key) + CounterGet(mapping, key) ]

----------------------------------------------------------------------------
(* The functions of cli.py *)

extract_complex(pull_request) == pull_request.additions + pull_request.deletions

extract_simple(pull_request) == 1

\* PullRequest.get_review_requests(): the pair (requested users, requested teams)
get_review_requests(pull_request) ==
    << pull_request.requested_users, pull_request.requested_teams >>

\* isinstance(rev, NamedUser.NamedUser)
IsNamedUser(rev) == rev \in Users

\* the three sets of extract_reviewers
ReviewerSources(pull_request) ==
    << { pull_request.reviews[i].user :
           i \in { j \in DOMAIN pull_request.reviews :
                     pull_request.reviews[j].state \in {"APPROVED", "REQUEST_CHANGES"} } },
       { rev \in get_review_requests(pull_request)[1] : IsNamedUser(rev) },
       { rev \in get_review_requests(pull_request)[2] : IsNamedUser(rev) } >>

\* extract_weight(pull_request), extract_weight being one of the two
\* functions above, passed by name
Call(extract_weight, pull_request) ==
    IF extract_weight = "extract_simple" THEN extract_simple(pull_request)
    ELSE extract_complex(pull_request)

extract_reviewers(pull_request, extract_weight) ==
    LET sources == ReviewerSources(pull_request)
        points  == Call(extract_weight, pull_request)
    IN  [ user \in sources[1] \cup sources[2] \cup sources[3] |-> points ]

\* round(x, 1) of 100 * iteration / total, in tenths of a percent (ties to even)
Percent(iteration, total) ==
    LET q == (1000 * iteration) \div total
        r == (1000 * iteration) % total
    IN  IF 2 * r > total \/ (2 * r = total /\ q % 2 = 1) THEN q + 1 ELSE q

\* print_bar: the line it echoes, or the ZeroDivisionError of its first statement
print_bar(iteration, total, prefix) ==
    IF total = 0
    THEN [raised |-> "ZeroDivisionError", line |-> << >>]
    ELSE [raised |-> "none",
          line |-> << prefix, (44 * iteration) \div total,
                      Percent(iteration, total), iteration >>]

print_list_item(item) == << "item", item >>

\* the orders sorted(counter.items(), key=value, reverse=True) can produce: the
\* keys by non-increasing value; the order of equal values is the insertion
\* order of the Counter, which the iteration order of a set decides
SortedItems(counter) ==
    LET n == Cardinality(DOMAIN counter)
    IN  { order \in [1..n -> DOMAIN counter] :
            /\ \A i, j \in 1..n : i # j => order[i] # order[j]
            /\ \A i, j \in 1..n : i < j => counter[order[i]] >= counter[order[j]] }

RECURSIVE PrintBars(_, _, _, _)
\* the loop of display_user_counter from position i on: the lines echoed and
\* the exception that stopped it
PrintBars(counter, order, total_sum, i) ==
    IF i > Len(order) THEN [raised |-> "none", lines |-> << >>]
    ELSE LET bar == print_bar(counter[order[i]], total_sum, order[i])
         IN  IF bar.raised # "none"
             THEN [raised |-> bar.raised, lines |-> << >>]
             ELSE LET rest == PrintBars(counter, order, total_sum, i + 1)
                  IN  [raised |-> rest.raised,
                       lines |-> << bar.line >> \o rest.lines]

display_user_counter(counter, headline, order) ==
    LET total_sum == SumOver(counter, DOMAIN counter)
        bars == PrintBars(counter, order, total_sum, 1)
    IN  [raised |-> bars.raised,
         lines |-> << << >>, << headline >> >> \o bars.lines]

datetime_now == NowDay

\* time_condition with the bound of the window included
time_condition_inclusive(pull_request, condition) ==
    IF condition = "all" THEN TRUE
    ELSE IF condition \notin {"week", "month", "year"} THEN FALSE
    ELSE LET delta == CASE condition = "week"  -> 7
                        [] condition = "month" -> 31
                        [] condition = "year"  -> 365
         IN  pull_request.created_at >= datetime_now - delta

\* time_condition, with timedelta(days=n) as n
time_condition(pull_request, condition) ==
    IF condition = "all" THEN TRUE
    ELSE IF condition \notin {"week", "month", "year"} THEN FALSE
    ELSE LET delta == CASE condition = "week"  -> 7
                        [] condition = "month" -> 31
                        [] condition = "year"  -> 365
         IN  pull_request.created_at > datetime_now - delta

get_comment_author_name(comment) == comment

RECURSIVE MapAuthors(_)
\* list(map(get_comment_author_name, comments))
MapAuthors(comments) ==
    IF comments = << >> THEN << >>
    ELSE << get_comment_author_name(Head(comments)) >> \o MapAuthors(Tail(comments))

CountIn(s, x) == Cardinality({ i \in DOMAIN s : s[i] = x })

RECURSIVE FirstOccurrences(_)
\* the keys of Counter(s), in the order they were first counted
FirstOccurrences(s) ==
    IF s = << >> THEN << >>
    ELSE LET front == FirstOccurrences(SubSeq(s, 1, Len(s) - 1))
             x == s[Len(s)]
         IN  IF x \in Range(front) THEN front ELSE Append(front, x)

\* put pair into a list sorted by non-increasing count, after its equals
InsertByCount(sorted, pair) ==
    LET smaller == { i \in DOMAIN sorted : sorted[i][2] < pair[2] }
        at == IF smaller = {} THEN Len(sorted) + 1
              ELSE CHOOSE i \in smaller : \A j \in smaller : i <= j
    IN  SubSeq(sorted, 1, at - 1) \o << pair >> \o SubSeq(sorted, at, Len(sorted))

RECURSIVE SortByCount(_)
SortByCount(pairs) ==
    IF pairs = << >> THEN << >>
    ELSE InsertByCount(SortByCount(SubSeq(pairs, 1, Len(pairs) - 1)),
                       pairs[Len(pairs)])

\* Counter(names).items(): the pairs in the order first counted, not sorted
counter_items(names) ==
    LET keys == FirstOccurrences(names)
    IN  [ i \in DOMAIN keys |-> << keys[i], CountIn(names, keys[i]) >> ]

\* Counter(names).most_common(): (name, count) by non-increasing count, equal
\* counts in the order first counted
most_common(names) ==
    LET keys == FirstOccurrences(names)
    IN  SortByCount([ i \in DOMAIN keys |-> << keys[i], CountIn(names, keys[i]) >> ])

\* print_users_with_comment_count: a headline, then one row per pair
print_users_with_comment_count(users_with_comment_count) ==
    << << "Comment count per user:" >> >> \o users_with_comment_count

----------------------------------------------------------------------------
(* The run of a subcommand *)

Commands == {"show", "labels", "comments"}

\* cli(): the token is present; a subcommand was invoked with its options
Init ==
    /\ cmd \in Commands
    /\ pc = "start"
    /\ weight_method \in (IF cmd = "show" THEN WeightMethods ELSE {"changes"})
    /\ younger_than \in (IF cmd = "show" THEN Windows ELSE {"month"})
    /\ label_list \in (IF cmd = "show" THEN LabelLists ELSE {{}})
    /\ remote \in (IF cmd = "labels" THEN {<< >>} ELSE PullLists)
    /\ repo_labels \in (IF cmd = "labels" THEN RepoLabelLists ELSE {<< >>})
    /\ cursor = 0
    /\ pull_requests = << >>
    /\ idx = 0
    /\ review_counter = EmptyCounter
    /\ creator_counter = EmptyCounter
    /\ last_points = EmptyCounter
    /\ user_names = << >>
    /\ out = << >>
    /\ raised = "none"
    /\ exit_status = "running"
    /\ stderr = ""
    /\ tc_created = 0
    /\ tc_condition = "all"
    /\ tc_result = "none"

options == << cmd, weight_method, younger_than, label_list, remote, repo_labels >>
harness == << tc_created, tc_condition, tc_result >>
show_state == << pull_requests, idx, review_counter, creator_counter, last_points >>

\* raise click.ClickException(message): click prints the message and exits 1
ClickException(exc, message) ==
    /\ pc' = "exit"
    /\ raised' = exc
    /\ exit_status' = "click_error"
    /\ stderr' = message

\* an exception no handler of the command catches: traceback, exit 1
Unhandled(exc) ==
    /\ pc' = "exit"
    /\ raised' = exc
    /\ exit_status' = "unhandled"
    /\ stderr' = stderr

Return ==
    /\ pc' = "exit"
    /\ exit_status' = "ok"
    /\ UNCHANGED << raised, stderr >>

(* show *)

\* the function --weight-method selects
extract_weight ==
    IF weight_method = "simple" THEN "extract_simple" ELSE "extract_complex"

\* a label filter that asks for any of the labels instead of all of them
LabelConditionAny(label_set, p) == label_set \cap p.labels # {}

\* the condition of the second list comprehension of show
LabelCondition(label_set, p) == label_set \subseteq p.labels

\* g.get_repo(name).get_pulls(state) returns
ShowStart ==
    /\ cmd = "show" /\ pc = "start"
    /\ pc' = "filter_time"
    /\ UNCHANGED << options, harness, show_state, cursor, user_names, out,
                    raised, exit_status, stderr >>

\* g.get_repo(name) raises: only UnknownObjectException has a handler
ShowStartFail(exc) ==
    /\ cmd = "show" /\ pc = "start"
    /\ IF exc = "UnknownObjectException"
       THEN ClickException(exc, "Repository not found!")
       ELSE Unhandled(exc)
    /\ UNCHANGED << options, harness, show_state, cursor, user_names, out >>

\* one turn of the first list comprehension: the next pull request of the
\* paginated list is kept if time_condition holds
ShowFetchPull ==
    /\ cmd = "show" /\ pc = "filter_time"
    /\ cursor < Len(remote)
    /\ LET request == remote[cursor + 1]
       IN  pull_requests' = IF time_condition(request, younger_than)
                            THEN Append(pull_requests, request)
                            ELSE pull_requests
    /\ cursor' = cursor + 1
    /\ UNCHANGED << options, harness, idx, review_counter, creator_counter,
                    last_points, user_names, out, raised, exit_status, stderr, pc >>

\* the paginated list is exhausted: the counters are created, the weight
\* function is selected and, if labels were given, the list is filtered
ShowFilterLabels ==
    /\ cmd = "show" /\ pc = "filter_time"
    /\ cursor = Len(remote)
    /\ review_counter' = EmptyCounter
    /\ creator_counter' = EmptyCounter
    /\ pull_requests' =
         IF label_list # {}
         THEN LET Keep(p) == LabelCondition(label_list, p)
              IN  SelectSeq(pull_requests, Keep)
         ELSE pull_requests
    /\ pc' = "process"
    /\ UNCHANGED << options, harness, cursor, idx, last_points, user_names, out,
                    raised, exit_status, stderr >>

\* one turn of the loop: the reviews and the review requests of the pull
\* request are fetched and both counters are updated
ShowProcessPull ==
    /\ cmd = "show" /\ pc = "process"
    /\ idx < Len(pull_requests)
    /\ LET pull == pull_requests[idx + 1]
           points == extract_reviewers(pull, extract_weight)
       IN  /\ last_points' = points
           /\ review_counter' = CounterUpdate(review_counter, points)
           /\ creator_counter' =
                CounterUpdate(creator_counter, (pull.user :> Call(extract_weight, pull)))
    /\ idx' = idx + 1
    /\ UNCHANGED << options, harness, cursor, pull_requests, user_names, out,
                    raised, exit_status, stderr, pc >>

\* a round trip made outside the try statement raises: while the paginated
\* list is iterated, or while the reviews or the review requests of a pull
\* request are fetched
ShowFail(exc) ==
    /\ cmd = "show"
    /\ \/ pc = "filter_time" /\ (cursor < Len(remote) \/ remote = << >>)
       \/ pc = "process" /\ idx < Len(pull_requests)
    /\ Unhandled(exc)
    /\ UNCHANGED << options, harness, show_state, cursor, user_names, out >>

\* display_user_counter(review_counter, 'Reviewers ranking:')
ShowDisplayReviewers ==
    /\ cmd = "show" /\ pc = "process"
    /\ idx = Len(pull_requests)
    /\ \E order \in SortedItems(review_counter) :
         LET shown == display_user_counter(review_counter, "Reviewers ranking:", order)
         IN  /\ out' = out \o shown.lines
             /\ IF shown.raised = "none"
                THEN /\ pc' = "display_creators"
                     /\ UNCHANGED << raised, exit_status, stderr >>
                ELSE Unhandled(shown.raised)
    /\ UNCHANGED << options, harness, show_state, cursor, user_names >>

\* display_user_counter(creator_counter, 'Creators ranking:')
ShowDisplayCreators ==
    /\ cmd = "show" /\ pc = "display_creators"
    /\ \E order \in SortedItems(creator_counter) :
         LET shown == display_user_counter(creator_counter, "Creators ranking:", order)
         IN  /\ out' = out \o shown.lines
             /\ IF shown.raised = "none"
                THEN Return
                ELSE Unhandled(shown.raised)
    /\ UNCHANGED << options, harness, show_state, cursor, user_names >>

(* labels *)

\* g.get_repo(name).get_labels() returns
LabelsStart ==
    /\ cmd = "labels" /\ pc = "start"
    /\ pc' = "iterate"
    /\ UNCHANGED << options, harness, show_state, cursor, user_names, out,
                    raised, exit_status, stderr >>

\* one turn of the loop: the next label is printed
LabelsNext ==
    /\ cmd = "labels" /\ pc = "iterate"
    /\ cursor < Len(repo_labels)
    /\ out' = Append(out, print_list_item(repo_labels[cursor + 1]))
    /\ cursor' = cursor + 1
    /\ UNCHANGED << options, harness, show_state, user_names, raised,
                    exit_status, stderr, pc >>

LabelsDone ==
    /\ cmd = "labels" /\ pc = "iterate"
    /\ cursor = Len(repo_labels)
    /\ Return
    /\ UNCHANGED << options, harness, show_state, cursor, user_names, out >>

\* the handlers of a try statement that covers a whole command body
HandleFetchError(exc) ==
    IF exc = "ConnectionError"
    THEN ClickException(exc, "Check your internet connection!")
    ELSE ClickException(exc, "Repository not found!")

\* a round trip of labels raises: the try statement covers all of them
LabelsFail(exc) ==
    /\ cmd = "labels"
    /\ \/ pc = "start"
       \/ pc = "iterate" /\ (cursor < Len(repo_labels) \/ repo_labels = << >>)
    /\ HandleFetchError(exc)
    /\ UNCHANGED << options, harness, show_state, cursor, user_names, out >>

(* comments *)

\* g.get_repo(name).get_pulls(state=state) and totalCount return
CommentsStart ==
    /\ cmd = "comments" /\ pc = "start"
    /\ pc' = "iterate"
    /\ user_names' = << >>
    /\ UNCHANGED << options, harness, show_state, cursor, out, raised,
                    exit_status, stderr >>

\* one turn of the loop: the comments of the next pull request are fetched
\* and their authors' names appended
CommentsPull ==
    /\ cmd = "comments" /\ pc = "iterate"
    /\ cursor < Len(remote)
    /\ LET pull_request == remote[cursor + 1]
       IN  user_names' = user_names \o MapAuthors(pull_request.comments)
    /\ cursor' = cursor + 1
    /\ UNCHANGED << options, harness, show_state, out, raised, exit_status,
                    stderr, pc >>

\* after the loop: the names are counted, sorted and printed
CommentsReport ==
    /\ cmd = "comments" /\ pc = "iterate"
    /\ cursor = Len(remote)
    /\ LET sorted_comment_count == most_common(user_names)
       IN  out' = out \o print_users_with_comment_count(sorted_comment_count)
    /\ Return
    /\ UNCHANGED << options, harness, show_state, cursor, user_names >>

\* an except clause that prints the table of what was gathered so far
CommentsFailOutputPartial(names) ==
    print_users_with_comment_count(most_common(names))

\* what the except clauses of comments do with what was gathered: nothing
CommentsFailOutput(names) == << >>

\* a round trip of comments raises: the try statement covers all of them
CommentsFail(exc) ==
    /\ cmd = "comments"
    /\ \/ pc = "start"
       \/ pc = "iterate" /\ (cursor < Len(remote) \/ remote = << >>)
    /\ out' = out \o CommentsFailOutput(user_names)
    /\ HandleFetchError(exc)
    /\ UNCHANGED << options, harness, show_state, cursor, user_names >>

Next ==
    \/ ShowStart
    \/ \E exc \in Exceptions : ShowStartFail(exc)
    \/ ShowFetchPull
    \/ ShowFilterLabels
    \/ ShowProcessPull
    \/ \E exc \in Exceptions : ShowFail(exc)
    \/ ShowDisplayReviewers
    \/ ShowDisplayCreators
    \/ LabelsStart
    \/ LabelsNext
    \/ LabelsDone
    \/ \E exc \in Exceptions : LabelsFail(exc)
    \/ CommentsStart
    \/ CommentsPull
    \/ CommentsReport
    \/ \E exc \in Exceptions : CommentsFail(exc)

Spec == Init /\ [][Next]_vars

----------------------------------------------------------------------------
(* time_condition called on its own *)

\* the window names of --younger-than, and one that is none of them
Conditions == Windows \cup {"decade"}

InitTime ==
    /\ cmd = "time_condition"
    /\ pc = "call"
    /\ tc_created \in 0 .. (NowDay + 1)
    /\ tc_condition \in Conditions
    /\ tc_result = "none"
    /\ weight_method = "changes"
    /\ younger_than = "month"
    /\ label_list = {}
    /\ remote = << >>
    /\ repo_labels = << >>
    /\ cursor = 0
    /\ pull_requests = << >>
    /\ idx = 0
    /\ review_counter = EmptyCounter
    /\ creator_counter = EmptyCounter
    /\ last_points = EmptyCounter
    /\ user_names = << >>
    /\ out = << >>
    /\ raised = "none"
    /\ exit_status = "running"
    /\ stderr = ""

TimeConditionCall ==
    /\ cmd = "time_condition" /\ pc = "call"
    /\ tc_result' = time_condition([created_at |-> tc_created], tc_condition)
    /\ pc' = "returned"
    /\ UNCHANGED << options, show_state, cursor, user_names, out, raised,
                    exit_status, stderr, tc_created, tc_condition >>

NextTime == TimeConditionCall

SpecTime == InitTime /\ [][NextTime]_vars

----------------------------------------------------------------------------
(* What the specification says of a pull request *)

\* weight(pr): 1 in simple mode, additions + deletions in changes mode
Weight(p) == IF weight_method = "simple" THEN 1 ELSE p.additions + p.deletions

\* the reviewer set of a pull request: the authors of its approved and of its
\* changes-requested reviews, and its individually requested users
ReviewerSet(p) ==
    { p.reviews[i].user :
        i \in { j \in DOMAIN p.reviews :
                  p.reviews[j].state \in {"APPROVED", "CHANGES_REQUESTED"} } }
    \cup p.requested_users

\* the pull requests the loop of show has processed so far
Processed == SubSeq(pull_requests, 1, idx)

\* the loop of show has ended and no round trip failed
ShowLoopEnded ==
    /\ cmd = "show"
    /\ pc \in {"process", "display_creators", "exit"}
    /\ idx = Len(pull_requests)
    /\ raised \notin Exceptions

\* the sum of Weight over the pull requests of list at the positions of S
WeightOf(list, S) == SumOver([ i \in DOMAIN list |-> Weight(list[i]) ], S)

\* the positions of the pull requests of list that u wrote, that u reviewed
WrittenBy(list, u) == { i \in DOMAIN list : list[i].user = u }
ReviewedBy(list, u) == { i \in DOMAIN list : u \in ReviewerSet(list[i]) }

----------------------------------------------------------------------------
(* C1 *)

\* C1: after show has processed its pull requests, the creator ranking holds
\* for every user the sum of the weights of the processed pull requests the
\* user wrote, and the reviewer ranking the sum of the weights of the
\* processed pull requests whose reviewer set contains the user.
C1_RankingTotals ==
    ShowLoopEnded =>
        \A u \in Users :
            /\ CounterGet(creator_counter, u) =
                 WeightOf(Processed, WrittenBy(Processed, u))
            /\ CounterGet(review_counter, u) =
                 WeightOf(Processed, ReviewedBy(Processed, u))

----------------------------------------------------------------------------
(* C2 *)

\* C2: extract_reviewers yields for one pull request one entry per user of
\* its reviewer set, valued at the pull request's weight, whatever the number
\* of sources and reviews that name the user; no user gets more than the weight.
C2_OneEntryPerReviewer ==
    (cmd = "show" /\ idx > 0) =>
        LET p == pull_requests[idx]
        IN  /\ \A u \in ReviewerSet(p) :
                 u \in DOMAIN last_points /\ last_points[u] = Weight(p)
            /\ \A u \in Users : CounterGet(last_points, u) <= Weight(p)

----------------------------------------------------------------------------
(* C3 *)

\* C3: the keys extract_reviewers returns are the authors of the approved and
\* changes-requested reviews together with the individually requested users:
\* no key for a user who only commented, none for a team.
C3_ReviewerKeys ==
    (cmd = "show" /\ idx > 0) =>
        DOMAIN last_points = ReviewerSet(pull_requests[idx])

----------------------------------------------------------------------------
(* C4 *)

\* C4: display_user_counter never raises a division error, whether the
\* counter is empty or all its values are 0.
C4_NoDivisionError == raised # "ZeroDivisionError"

----------------------------------------------------------------------------
(* C5 *)

\* C5: in show, labels and comments a repository-not-found condition and a
\* connection failure, at whatever round trip, end the command in a click
\* error with a message, never in an unhandled exception.
C5_FetchErrorsReported ==
    (cmd \in Commands /\ raised \in Exceptions) =>
        (exit_status = "click_error" /\ stderr # "")

----------------------------------------------------------------------------
(* C6 *)

\* C6: time_condition returns true for `all`; for week, month and year it
\* returns true iff created_at is strictly later than now minus 7, 31, 365
\* days; for any other window it returns false.
C6_TimeCondition ==
    pc = "returned" =>
        tc_result = ( \/ tc_condition = "all"
                      \/ tc_condition = "week" /\ tc_created > NowDay - 7
                      \/ tc_condition = "month" /\ tc_created > NowDay - 31
                      \/ tc_condition = "year" /\ tc_created > NowDay - 365 )

\* a pull request created exactly 7 days ago was refused for `week`
C6_Witness ==
    /\ pc = "returned"
    /\ tc_condition = "week"
    /\ tc_created = NowDay - 7
    /\ tc_result = FALSE

----------------------------------------------------------------------------
(* C7 *)

\* the pull requests of the repository that pass the time filter
PassedTimeFilter ==
    LET InWindow(p) == time_condition(p, younger_than)
    IN  SelectSeq(remote, InWindow)

\* C7: show processes, of the pull requests that passed the time filter,
\* exactly those whose labels include every required label (all of them when
\* no label is required); the creator ranking is made of these alone, and
\* no user outside their reviewer sets is in the reviewer ranking.
C7_LabelFilter ==
    ShowLoopEnded =>
        LET HasAll(p) == label_list \subseteq p.labels
            kept == SelectSeq(PassedTimeFilter, HasAll)
        IN  /\ Processed = kept
            /\ \A u \in Users :
                 CounterGet(creator_counter, u) = WeightOf(kept, WrittenBy(kept, u))
            /\ DOMAIN creator_counter = { kept[i].user : i \in DOMAIN kept }
            /\ DOMAIN review_counter \subseteq
                 UNION { ReviewerSet(kept[i]) : i \in DOMAIN kept }

\* show ended after it processed one pull request and dropped another, which
\* had passed the time filter, for a label it lacks
C7_Witness ==
    /\ ShowLoopEnded
    /\ pc = "exit"
    /\ label_list # {}
    /\ Len(pull_requests) > 0
    /\ Len(pull_requests) < Len(PassedTimeFilter)

----------------------------------------------------------------------------
(* C8 *)

\* C8: in show and comments nothing of a ranking or of the comment table is
\* printed in a run in which a round trip failed; what is printed is printed
\* after every pull request was iterated and processed.
C8_NoPartialReport ==
    (cmd \in {"show", "comments"} /\ out # << >>) =>
        /\ raised \notin Exceptions
        /\ cursor = Len(remote)
        /\ cmd = "show" => idx = Len(pull_requests)

\* show failed in its loop with points already counted, and printed nothing
C8_Witness ==
    /\ cmd = "show"
    /\ raised \in Exceptions
    /\ idx > 0
    /\ \E u \in DOMAIN review_counter : review_counter[u] > 0
    /\ out = << >>

----------------------------------------------------------------------------
(* C9 *)

NonNegative(counter) == \A u \in DOMAIN counter : counter[u] >= 0

\* C9: through the loop of show every entry of both counters is
\* non-negative, no entry decreases from one step to the next and no key
\* is removed.
C9_CountersGrow ==
    /\ [](NonNegative(review_counter) /\ NonNegative(creator_counter))
    /\ [][ /\ \A u \in DOMAIN review_counter :
                u \in DOMAIN review_counter' /\ review_counter'[u] >= review_counter[u]
           /\ \A u \in DOMAIN creator_counter :
                u \in DOMAIN creator_counter' /\ creator_counter'[u] >= creator_counter[u]
         ]_vars

\* a user wrote the first two processed pull requests and holds their sum
C9_Witness ==
    /\ cmd = "show"
    /\ idx >= 2
    /\ pull_requests[1].user = pull_requests[2].user
    /\ Weight(pull_requests[1]) > 0
    /\ Weight(pull_requests[2]) = 0
    /\ creator_counter[pull_requests[1].user] >= Weight(pull_requests[1])

----------------------------------------------------------------------------
(* C10 *)

\* the rows of the comment table: what follows the headline
CommentRows == Tail(out)

\* the number of comments of the repository's pull requests that u wrote
CommentsBy(u) ==
    SumOver([ i \in DOMAIN remote |-> CountIn(remote[i].comments, u) ], DOMAIN remote)

\* C10: when comments ends, the table has one row for each user who wrote a
\* comment, with the number of comments the user wrote over all the pull
\* requests, no row for anyone else, and the rows are in non-increasing
\* order of count.
C10_CommentTable ==
    (cmd = "comments" /\ exit_status = "ok") =>
        /\ \A u \in Users :
             { i \in DOMAIN CommentRows : CommentRows[i][1] = u } =
             { i \in DOMAIN CommentRows : CommentRows[i] = << u, CommentsBy(u) >> }
        /\ \A u \in Users :
             Cardinality({ i \in DOMAIN CommentRows : CommentRows[i][1] = u }) =
             (IF CommentsBy(u) > 0 THEN 1 ELSE 0)
        /\ \A i \in DOMAIN CommentRows : CommentRows[i][1] \in Users
        /\ \A i, j \in DOMAIN CommentRows :
             i < j => CommentRows[i][2] >= CommentRows[j][2]

\* comments ended with a user whose comments are spread over two pull
\* requests, below a user counted first later than them
C10_Witness ==
    /\ cmd = "comments" /\ exit_status = "ok"
    /\ Len(remote) >= 2
    /\ \E u \in Users :
         CountIn(remote[1].comments, u) > 0 /\ CountIn(remote[2].comments, u) > 0
    /\ Len(CommentRows) >= 2
    /\ CommentRows[1][2] > CommentRows[2][2]
    /\ CommentRows[1][1] # user_names[1]

====
